---- MODULE Spec2Model ----
(***************************************************************************)
(* TypedJSON (v1-experimental): the TypedJSON facade of typed-json.ts      *)
(* (constructor, config, setGlobalConfig, parse*/stringify* entry points)  *)
(* and the jsonMember / jsonSetMember property decorators.                 *)
(*                                                                         *)
(* Every top-level call is one atomic action (JavaScript runs a call to    *)
(* completion); what the call did is recorded in the variable `last`.      *)
(***************************************************************************)
EXTENDS Integers, Sequences, FiniteSets, TLC

VARIABLES
    globalConfig,   \* TypedJSON._globalConfig (static), Absent while unset
    inst,           \* the most recently constructed TypedJSON instance, Absent before any
    nextTable,      \* number of known-types Map objects allocated so far
    handed,         \* identities of the Maps handed to the deserializer, in order
    last,           \* record of the last top-level facade call
    isReflectMetadataSupported, \* Helpers.isReflectMetadataSupported
    members,        \* per property key, the member metadata last injected for it
    lastDecor       \* record of the last decorator application

vars == <<globalConfig, inst, nextTable, handed, last,
          isReflectMetadataSupported, members, lastDecor>>

facadeVars == <<globalConfig, inst, nextTable, handed, last>>
memberVars == <<members, lastDecor>>

-----------------------------------------------------------------------------
(* Bounds *)

\* Known-types Maps that may be allocated in one behaviour.
MaxTables == 2
\* Largest 'dimensions' argument tried.
MaxDims == 2

-----------------------------------------------------------------------------
(* Values *)

Undef == "undefined"
Null == "null"

\* An optional value: <<>> when absent (undefined), <<x>> when present.
Absent == <<>>
Some(x) == <<x>>
IsPresent(o) == o # <<>>
The(o) == o[1]

\* Constructors. Derived and DerivedB are two distinct classes that are both
\* declared under the class name "Derived" (in different modules).
Classes == {"Base", "Leaf", "Derived", "DerivedB", "Implicit", "Plain"}
Containers == {"Array", "Set", "Map"}
Builtins == {"Number", "String", "Object"} \cup Containers

\* Helpers.nameof(ctor): the declared name of the function.
nameof(ctor) == IF ctor = "DerivedB" THEN "Derived" ELSE ctor

\* A caller-supplied resolver that qualifies the name by its module, so that
\* distinct constructors get distinct names.
qualifiedName(ctor) == IF ctor = "Derived" THEN "a/Derived"
                       ELSE IF ctor = "DerivedB" THEN "b/Derived" ELSE ctor

\* Applying a nameResolver callback.
ResolveName(resolver, ctor) ==
    IF resolver = "nameof" THEN nameof(ctor) ELSE qualifiedName(ctor)

\* The metadata the class decorators left on each class prototype:
\* Base and Leaf carry @jsonObject, Base with the known type Derived; Implicit
\* only has @jsonMember properties (metadata present, not explicitly marked);
\* the others have none.
ClassMetadata ==
    [c \in Classes \cup Builtins |->
        CASE c = "Base" -> Some([isExplicitlyMarked |-> TRUE, knownTypes |-> <<"Derived">>])
          [] c = "Leaf" -> Some([isExplicitlyMarked |-> TRUE, knownTypes |-> <<>>])
          [] c = "Implicit" -> Some([isExplicitlyMarked |-> FALSE, knownTypes |-> <<>>])
          [] OTHER -> Absent]

\* JsonObjectMetadata.getFromConstructor
getFromConstructor(ctor) == ClassMetadata[ctor]

\* 'object instanceof ctor' for an object whose constructor is objCtor.
instanceOf(objCtor, ctor) ==
    \/ objCtor = ctor
    \/ objCtor \in {"Derived", "DerivedB"} /\ ctor = "Base"

-----------------------------------------------------------------------------
(* Sequences *)

Range(s) == {s[i] : i \in 1..Len(s)}

RECURSIVE Dedup(_)
\* Array.from(new Set(array)): first occurrences, in order.
Dedup(s) ==
    IF s = <<>> THEN <<>>
    ELSE LET r == Dedup(SubSeq(s, 1, Len(s) - 1))
             x == s[Len(s)]
         IN IF x \in Range(r) THEN r ELSE Append(r, x)

\* array.filter(x => x): drops undefined and null entries.
FilterTruthy(s) == SelectSeq(s, LAMBDA x : x # Undef /\ x # Null)

-----------------------------------------------------------------------------
(* Settings (ITypedJSONSettings) *)

SettingKeys == {"errorHandler", "typeResolver", "nameResolver", "typeHintEmitter",
                "indent", "replacer", "knownTypes"}

\* A settings object: `has` is the set of properties it defines; a property
\* it does not define holds the filler value of its type.
EmptySettings ==
    [has |-> {}, errorHandler |-> Undef, typeResolver |-> Undef, nameResolver |-> Undef,
     typeHintEmitter |-> Undef, indent |-> 0, replacer |-> Undef, knownTypes |-> <<>>]

Has(s, k) == k \in s.has

\* The settings objects callers pass: a re-throwing handler with
\* type-resolution overrides, indent 0 and a known-types list that holds a
\* null and names one constructor twice; a handler that returns, with a
\* qualifying name resolver, a replacer and indent 2.
SettingsInputs ==
    { [EmptySettings EXCEPT !.has = {"errorHandler", "knownTypes", "indent",
                                     "typeResolver", "typeHintEmitter"},
                            !.errorHandler = "rethrow",
                            !.knownTypes = <<"DerivedB", Null, "DerivedB">>,
                            !.indent = 0, !.typeResolver = "resolverFn",
                            !.typeHintEmitter = "emitterFn"],
      [EmptySettings EXCEPT !.has = {"errorHandler", "nameResolver", "knownTypes",
                                     "indent", "replacer"},
                            !.errorHandler = "swallow", !.nameResolver = "qualified",
                            !.knownTypes = <<"Derived", "DerivedB">>, !.indent = 2,
                            !.replacer = "replacerFn"] }

\* A merge in which the properties already in a win over b's.
SpreadFirstWins(a, b) ==
    [has |-> a.has \cup b.has,
     errorHandler |-> IF Has(a, "errorHandler") THEN a.errorHandler ELSE b.errorHandler,
     typeResolver |-> IF Has(a, "typeResolver") THEN a.typeResolver ELSE b.typeResolver,
     nameResolver |-> IF Has(a, "nameResolver") THEN a.nameResolver ELSE b.nameResolver,
     typeHintEmitter |-> IF Has(a, "typeHintEmitter") THEN a.typeHintEmitter ELSE b.typeHintEmitter,
     indent |-> IF Has(a, "indent") THEN a.indent ELSE b.indent,
     replacer |-> IF Has(a, "replacer") THEN a.replacer ELSE b.replacer,
     knownTypes |-> IF Has(a, "knownTypes") THEN a.knownTypes ELSE b.knownTypes]

\* { ...a, ...b } and Object.assign(a, b): b's own properties win.
Spread(a, b) ==
    [has |-> a.has \cup b.has,
     errorHandler |-> IF Has(b, "errorHandler") THEN b.errorHandler ELSE a.errorHandler,
     typeResolver |-> IF Has(b, "typeResolver") THEN b.typeResolver ELSE a.typeResolver,
     nameResolver |-> IF Has(b, "nameResolver") THEN b.nameResolver ELSE a.nameResolver,
     typeHintEmitter |-> IF Has(b, "typeHintEmitter") THEN b.typeHintEmitter ELSE a.typeHintEmitter,
     indent |-> IF Has(b, "indent") THEN b.indent ELSE a.indent,
     replacer |-> IF Has(b, "replacer") THEN b.replacer ELSE a.replacer,
     knownTypes |-> IF Has(b, "knownTypes") THEN b.knownTypes ELSE a.knownTypes]

-----------------------------------------------------------------------------
(* JSON text: a text is a sequence of tokens *)

Text123 == <<"[", "1", ",", "2", ",", "3", "]">>
TextObject == <<"{", "}">>
TextBad == <<"[", "1", ",">>

\* The JSON texts callers pass.
JsonInputs == {Text123, TextObject, TextBad}

DigitTokens == {"1", "2", "3"}
DigitValue(tok) == CASE tok = "1" -> 1 [] tok = "2" -> 2 [] OTHER -> 3
DigitToken(n) == CASE n = 1 -> "1" [] n = 2 -> "2" [] OTHER -> "3"

\* The tokens between the brackets are number, comma, number, ..., number.
IsElementList(toks) ==
    /\ Len(toks) % 2 = 1
    /\ \A i \in 1..Len(toks) :
          IF i % 2 = 1 THEN toks[i] \in DigitTokens ELSE toks[i] = ","

\* JSON.parse: the decoded value, or a SyntaxError.
JSONparse(json) ==
    LET n == Len(json)
        inner == SubSeq(json, 2, n - 1)
    IN IF json = <<"{", "}">> THEN [ok |-> TRUE, kind |-> "object", items |-> <<>>]
       ELSE IF n = 1 /\ json[1] \in DigitTokens
            THEN [ok |-> TRUE, kind |-> "number", items |-> <<DigitValue(json[1])>>]
       ELSE IF n >= 2 /\ json[1] = "[" /\ json[n] = "]" /\ (inner = <<>> \/ IsElementList(inner))
            THEN [ok |-> TRUE, kind |-> "array",
                  items |-> [i \in 1..((Len(inner) + 1) \div 2) |-> DigitValue(inner[2 * i - 1])]]
       ELSE [ok |-> FALSE, kind |-> "SyntaxError", items |-> <<>>]

RECURSIVE ElementTokens(_)
ElementTokens(items) ==
    IF items = <<>> THEN <<>>
    ELSE IF Len(items) = 1 THEN <<DigitToken(items[1])>>
    ELSE <<DigitToken(items[1]), ",">> \o ElementTokens(Tail(items))

\* JSON.stringify of a plain array of numbers (no replacer, no indentation).
JSONstringify(items) == <<"[">> \o ElementTokens(items) \o <<"]">>

-----------------------------------------------------------------------------
(* Known-types tables: a JavaScript Map, as its entries in insertion order *)

MapHas(m, k) == \E i \in 1..Len(m) : m[i][1] = k
MapGet(m, k) == m[CHOOSE i \in 1..Len(m) : m[i][1] = k][2]

\* A Map.set that keeps the entry already stored under the key.
MapSetKeepFirst(m, k, v) == IF MapHas(m, k) THEN m ELSE Append(m, <<k, v>>)

\* Map.prototype.set: replaces the value stored under an existing key.
MapSet(m, k, v) ==
    IF MapHas(m, k)
    THEN [i \in 1..Len(m) |-> IF m[i][1] = k THEN <<k, v>> ELSE m[i]]
    ELSE Append(m, <<k, v>>)

RECURSIVE SetAll(_, _, _)
\* ctors.forEach(ctor => map.set(nameResolver(ctor), ctor))
SetAll(m, ctors, resolver) ==
    IF ctors = <<>> THEN m
    ELSE SetAll(MapSet(m, ResolveName(resolver, Head(ctors)), Head(ctors)), Tail(ctors), resolver)

\* A table allocation that hands out the Map of the first call again.
NewMapShared(allocated) == 1

\* new Map(): the identity of the Map object allocated after `allocated` others.
NewMap(allocated) == allocated + 1

-----------------------------------------------------------------------------
(* TypedJSON instances *)

\* Field initialisers and the constructor's defaults (before config).
NewInstance(rootConstructor) ==
    [rootConstructor |-> rootConstructor,
     errorHandler |-> "logError",
     nameResolver |-> "nameof",
     replacer |-> Undef,
     indent |-> 0,
     globalKnownTypes |-> <<>>,
     desErrorHandler |-> "default",
     desTypeResolver |-> "default",
     desNameResolver |-> "default",
     serErrorHandler |-> "default",
     serTypeHintEmitter |-> "default",
     serNameResolver |-> "default"]

\* The settings config works with: merged with the global config when one is set.
EffectiveSettings(g, settings) ==
    IF IsPresent(g)
    THEN LET merged == Spread(The(g), settings)
         IN IF Has(merged, "knownTypes") /\ Has(The(g), "knownTypes")
            THEN [merged EXCEPT !.knownTypes = Dedup(merged.knownTypes \o The(g).knownTypes)]
            ELSE merged
    ELSE settings

\* The caller's settings object after config.  With a global config the
\* parameter is rebound to a fresh object before the only write to it (the
\* merged knownTypes); without one it still names the caller's object, which
\* then holds whatever the parameter holds at the end.
CallerSettingsAfter(g, settings) ==
    IF IsPresent(g) THEN settings ELSE EffectiveSettings(g, settings)

\* _globalConfig after config: it is only read (spread, and concat of its
\* knownTypes, which builds a new array).
GlobalAfterConfig(g) == g

\* TypedJSON.config
Config(i, g, settings) ==
    LET s == EffectiveSettings(g, settings)
    IN [i EXCEPT
          !.errorHandler = IF Has(s, "errorHandler") THEN s.errorHandler ELSE @,
          !.desErrorHandler = IF Has(s, "errorHandler") THEN s.errorHandler ELSE @,
          !.serErrorHandler = IF Has(s, "errorHandler") THEN s.errorHandler ELSE @,
          !.replacer = IF Has(s, "replacer") THEN s.replacer ELSE @,
          !.desTypeResolver = IF Has(s, "typeResolver") THEN s.typeResolver ELSE @,
          !.serTypeHintEmitter = IF Has(s, "typeHintEmitter") THEN s.typeHintEmitter ELSE @,
          !.indent = IF Has(s, "indent") /\ s.indent # 0 THEN s.indent ELSE @,
          !.nameResolver = IF Has(s, "nameResolver") THEN s.nameResolver ELSE @,
          !.desNameResolver = IF Has(s, "nameResolver") THEN s.nameResolver ELSE @,
          !.globalKnownTypes = IF Has(s, "knownTypes") THEN s.knownTypes ELSE @]

\* A root check that only asks for metadata to exist.
RootRejectedUnmarkedAllowed(rootMetadata) == ~IsPresent(rootMetadata)

\* The constructor's guard: !rootMetadata || !rootMetadata.isExplicitlyMarked
RootRejected(rootMetadata) ==
    ~IsPresent(rootMetadata) \/ ~The(rootMetadata).isExplicitlyMarked

\* new TypedJSON(rootConstructor, settings): `settings` is optional.
\* The result names the exception thrown (None when none) and the instance.
Construct(rootConstructor, g, settings) ==
    IF RootRejected(getFromConstructor(rootConstructor))
    THEN [threw |-> "TypeError", configured |-> FALSE, inst |-> Absent]
    ELSE LET fresh == NewInstance(rootConstructor)
         IN IF IsPresent(settings)
            THEN [threw |-> "none", configured |-> TRUE,
                  inst |-> Some(Config(fresh, g, The(settings)))]
            ELSE IF IsPresent(g)
            THEN [threw |-> "none", configured |-> TRUE,
                  inst |-> Some(Config(fresh, g, EmptySettings))]
            ELSE [threw |-> "none", configured |-> FALSE, inst |-> Some(fresh)]

\* TypedJSON.setGlobalConfig: the new value of _globalConfig.
SetGlobal(g, config) ==
    IF IsPresent(g) THEN Some(Spread(The(g), config)) ELSE Some(config)

-----------------------------------------------------------------------------
(* The record of one top-level call *)

NoValue == [kind |-> "none", items |-> <<>>]          \* nothing was returned
Undefined == [kind |-> "undefined", items |-> <<>>]
StringOf(tokens) == [kind |-> "string", items |-> tokens]
EmptyString == StringOf(<<>>)

Blank ==
    [op |-> "none",             \* the entry point
     root |-> "none",           \* the root constructor
     handler |-> "none",        \* the instance's errorHandler during the call
     configured |-> FALSE,      \* constructor / config: the settings were applied
     arg |-> Absent,            \* new / config / setGlobalConfig: the settings argument
     argKept |-> TRUE,          \* new / config: the caller's settings object is as it was
     json |-> <<>>,             \* the JSON text argument
     objCtor |-> "none",        \* stringify: the constructor of the object argument
     object |-> <<>>,           \* stringifyAs*: the elements of the container argument
     requested |-> 0,           \* array calls: the dimensions the caller asked for
     dims |-> 0,                \* the dimensions the facade worked with
     decoded |-> "none",        \* kind of the decoded JSON value
     error |-> "none",          \* the error that arose in the call
     during |-> "none",         \* where it arose: "construct", "check" or "conversion"
     threw |-> "none",          \* the exception that left the call
     handlerCalls |-> <<>>,     \* the errors the facade passed to this.errorHandler
     desCalled |-> FALSE,       \* the deserializer was invoked
     serCalled |-> FALSE,       \* the serializer was invoked
     chain |-> <<>>,            \* the element constructor chain given to the converter
     tableId |-> 0,             \* identity of the known-types Map allocated (0: none)
     sources |-> <<>>,          \* the constructors entered into the Map, in order
     table |-> <<>>,            \* the Map's entries
     trace |-> <<>>,            \* allocation, writes and hand-over of the Map, in order
     indent |-> 0,              \* stringify*: the indent given to JSON.stringify
     replacer |-> Undef,        \* stringify*: the replacer given to JSON.stringify
     result |-> NoValue]        \* the value returned

Call(i, op) ==
    [Blank EXCEPT !.op = op, !.root = i.rootConstructor, !.handler = i.errorHandler]

\* The behaviour of an errorHandler callback: "rethrow" throws the error it is
\* given; "logError" (the default) and "swallow" return normally.
HandlerThrows(h) == h = "rethrow"

\* this.errorHandler(e)
InvokeHandler(o, h, e) ==
    [o EXCEPT !.handlerCalls = Append(@, e),
              !.threw = IF HandlerThrows(h) THEN e ELSE @]

\* An exception that is not caught in the facade leaves the call.
Uncaught(o, e, during) == [o EXCEPT !.error = e, !.during = during, !.threw = e]

\* A try block without its catch clause.
TryCatchMissing(o, h, e) == Uncaught(o, e, "conversion")

\* try { ... } catch (e) { this.errorHandler(e); }
TryCatch(o, h, e) ==
    InvokeHandler([o EXCEPT !.error = e, !.during = "conversion"], h, e)

\* 'return value': reached only when no exception is leaving the call.
Return(o, value) == IF o.threw # "none" THEN o ELSE [o EXCEPT !.result = value]

\* A shape check that lets every decoded value through.
IsArrayAlways(decoded) == TRUE

\* object instanceof Array
IsArray(decoded) == decoded.kind = "array"

\* The dimensions a caller asks for: one when the argument is omitted.
RequestedDimensions(dimensions) == IF IsPresent(dimensions) THEN The(dimensions) ELSE 1

\* The default parameter value: 'dimensions: number = 1'.
DefaultDimensions(dimensions) == IF IsPresent(dimensions) THEN The(dimensions) ELSE 1

\* new Array((dimensions - 1) || 0).fill(Array).concat(this.rootConstructor)
ElementChain(dimensions, rootConstructor) ==
    [k \in 1..(dimensions - 1) |-> "Array"] \o <<rootConstructor>>

\* The life of a known-types Map in the facade: allocation, one write per
\* constructor, and (when the deserializer is invoked) the hand-over.
BuildTrace(id, writes) ==
    <<[ev |-> "new", id |-> id]>> \o [k \in 1..writes |-> [ev |-> "set", id |-> id]]

HandOver(o) ==
    [o EXCEPT !.desCalled = TRUE, !.trace = Append(@, [ev |-> "hand", id |-> o.tableId])]

WithTable(o, id, sources, resolver) ==
    [o EXCEPT !.tableId = id, !.sources = sources,
              !.table = SetAll(<<>>, sources, resolver),
              !.trace = BuildTrace(id, Len(sources))]

-----------------------------------------------------------------------------
(* Converters (Deserializer, Serializer): results when they do not throw *)

\* Deserializer.convertSingleValue of a decoded value: an instance of the root class.
desConvertSingleValue(decoded) == [kind |-> "object", items |-> <<>>]
\* Deserializer.convertAsArray: one converted element per input element.
desConvertAsArray(decoded) == [kind |-> "Array", items |-> decoded.items]
\* Deserializer.convertAsSet: elements inserted in order, duplicates collapse.
desConvertAsSet(decoded) == [kind |-> "Set", items |-> Dedup(decoded.items)]
\* Deserializer.convertAsMap: one entry per input pair.
desConvertAsMap(decoded) == [kind |-> "Map", items |-> decoded.items]
\* Serializer.convertAsArray / convertAsSet / convertAsMap: a plain array of the
\* converted elements in iteration order.
serConvertElements(object) == object

-----------------------------------------------------------------------------
(* Instance methods.  desThrows / serThrows: whether the converter throws;    *)
(* allocated: the number of Maps allocated before the call.                   *)

\* The constructors parse enters into its table.
ParseSources(i) ==
    LET rootMetadata == getFromConstructor(i.rootConstructor)
    IN FilterTruthy(i.globalKnownTypes)
         \o (IF IsPresent(rootMetadata) THEN The(rootMetadata).knownTypes ELSE <<>>)

\* TypedJSON.parse
Parse(i, json, desThrows, allocated) ==
    LET built == WithTable([Call(i, "parse") EXCEPT !.json = json],
                           NewMap(allocated), ParseSources(i), i.nameResolver)
        decoded == JSONparse(json)
    IN IF ~decoded.ok
       THEN Return(TryCatch([built EXCEPT !.decoded = decoded.kind],
                            i.errorHandler, "SyntaxError"), Undefined)
       ELSE LET invoked == HandOver([built EXCEPT !.decoded = decoded.kind])
            IN IF desThrows
               THEN Return(TryCatch(invoked, i.errorHandler, "ConversionError"), Undefined)
               ELSE Return(invoked, desConvertSingleValue(decoded))

\* TypedJSON._mapKnownTypes(this.globalKnownTypes)
MapKnownTypes(o, i, allocated) ==
    WithTable(o, NewMap(allocated), FilterTruthy(i.globalKnownTypes), i.nameResolver)

\* The common shape of parseAsArray, parseAsSet and parseAsMap.
ParseAsContainer(o, i, json, desThrows, allocated, converted, empty) ==
    LET decoded == JSONparse(json)
        start == [o EXCEPT !.json = json, !.decoded = decoded.kind]
    IN IF ~decoded.ok
       THEN Uncaught(start, "SyntaxError", "conversion")
       ELSE IF IsArray(decoded)
       THEN LET invoked == HandOver(MapKnownTypes(start, i, allocated))
            IN IF desThrows
               THEN Uncaught(invoked, "ConversionError", "conversion")
               ELSE Return(invoked, converted)
       ELSE Return(InvokeHandler([start EXCEPT !.error = "TypeError", !.during = "check"],
                                 i.errorHandler, "TypeError"),
                   empty)

\* TypedJSON.parseAsArray: `dimensions` is optional.
ParseAsArray(i, json, dimensions, desThrows, allocated) ==
    ParseAsContainer([Call(i, "parseAsArray") EXCEPT
                          !.requested = RequestedDimensions(dimensions),
                          !.dims = DefaultDimensions(dimensions),
                          !.chain = ElementChain(DefaultDimensions(dimensions),
                                                 i.rootConstructor)],
                     i, json, desThrows, allocated,
                     desConvertAsArray(JSONparse(json)), [kind |-> "Array", items |-> <<>>])

\* TypedJSON.parseAsSet
ParseAsSet(i, json, desThrows, allocated) ==
    ParseAsContainer([Call(i, "parseAsSet") EXCEPT !.chain = <<i.rootConstructor>>],
                     i, json, desThrows, allocated,
                     desConvertAsSet(JSONparse(json)), [kind |-> "Set", items |-> <<>>])

\* TypedJSON.parseAsMap
ParseAsMap(i, json, desThrows, allocated) ==
    ParseAsContainer([Call(i, "parseAsMap") EXCEPT !.chain = <<i.rootConstructor>>],
                     i, json, desThrows, allocated,
                     desConvertAsMap(JSONparse(json)), [kind |-> "Map", items |-> <<>>])

\* TypedJSON.stringify.  objCtor is the constructor of `object`.
Stringify(i, objCtor, serThrows) ==
    LET start == [Call(i, "stringify") EXCEPT
                     !.objCtor = objCtor, !.indent = i.indent, !.replacer = i.replacer]
    IN IF ~instanceOf(objCtor, i.rootConstructor)
       THEN Return(InvokeHandler([start EXCEPT !.error = "TypeError", !.during = "check"],
                                 i.errorHandler, "TypeError"),
                   Undefined)
       ELSE LET invoked == [start EXCEPT !.serCalled = TRUE]
            IN IF serThrows
               THEN Return(TryCatch(invoked, i.errorHandler, "ConversionError"), EmptyString)
               ELSE Return(invoked, StringOf(<<"{", "}">>))

\* The common shape of stringifyAsArray, stringifyAsSet and stringifyAsMap.
StringifyAsContainer(o, i, object, serThrows) ==
    LET invoked == [o EXCEPT !.object = object, !.serCalled = TRUE,
                             !.indent = i.indent, !.replacer = i.replacer]
    IN IF serThrows
       THEN Uncaught(invoked, "ConversionError", "conversion")
       ELSE Return(invoked, StringOf(JSONstringify(serConvertElements(object))))

\* TypedJSON.stringifyAsArray: `dimensions` is optional.
StringifyAsArray(i, object, dimensions, serThrows) ==
    StringifyAsContainer([Call(i, "stringifyAsArray") EXCEPT
                              !.requested = RequestedDimensions(dimensions),
                              !.dims = DefaultDimensions(dimensions),
                              !.chain = ElementChain(DefaultDimensions(dimensions),
                                                     i.rootConstructor)],
                         i, object, serThrows)

\* TypedJSON.stringifyAsSet
StringifyAsSet(i, object, serThrows) ==
    StringifyAsContainer([Call(i, "stringifyAsSet") EXCEPT !.chain = <<i.rootConstructor>>],
                         i, object, serThrows)

\* TypedJSON.stringifyAsMap
StringifyAsMap(i, object, serThrows) ==
    StringifyAsContainer([Call(i, "stringifyAsMap") EXCEPT !.chain = <<i.rootConstructor>>],
                         i, object, serThrows)

-----------------------------------------------------------------------------
(* Static entry points: new TypedJSON(type, settings).method(...) *)

\* The constructor threw: the method is never called.
ConstructFailed(c, o) ==
    [o EXCEPT !.configured = c.configured, !.error = c.threw, !.during = "construct",
              !.threw = c.threw]

\* static TypedJSON.parse
StaticParse(json, rootType, g, settings, desThrows, allocated) ==
    LET c == Construct(rootType, g, settings)
    IN IF c.threw # "none"
       THEN ConstructFailed(c, [Blank EXCEPT !.op = "parse", !.root = rootType, !.json = json])
       ELSE Parse(The(c.inst), json, desThrows, allocated)

\* static TypedJSON.parseAsArray(json, elementType, settings?): the parameter
\* list has no `dimensions`, so the dimensions a caller asks for have no way
\* in, and the instance method is called with `json` alone.
StaticParseAsArray(json, elementType, dimensions, g, settings, desThrows, allocated) ==
    LET c == Construct(elementType, g, settings)
        asked == RequestedDimensions(dimensions)
    IN IF c.threw # "none"
       THEN ConstructFailed(c, [Blank EXCEPT !.op = "parseAsArray", !.root = elementType,
                                          !.json = json, !.requested = asked])
       ELSE [ParseAsArray(The(c.inst), json, Absent, desThrows, allocated)
                EXCEPT !.requested = asked]

\* static TypedJSON.parseAsSet
StaticParseAsSet(json, elementType, g, settings, desThrows, allocated) ==
    LET c == Construct(elementType, g, settings)
    IN IF c.threw # "none"
       THEN ConstructFailed(c, [Blank EXCEPT !.op = "parseAsSet", !.root = elementType, !.json = json])
       ELSE ParseAsSet(The(c.inst), json, desThrows, allocated)

\* static TypedJSON.parseAsMap
StaticParseAsMap(json, valueType, g, settings, desThrows, allocated) ==
    LET c == Construct(valueType, g, settings)
    IN IF c.threw # "none"
       THEN ConstructFailed(c, [Blank EXCEPT !.op = "parseAsMap", !.root = valueType, !.json = json])
       ELSE ParseAsMap(The(c.inst), json, desThrows, allocated)

\* static TypedJSON.stringify
StaticStringify(objCtor, rootType, g, settings, serThrows) ==
    LET c == Construct(rootType, g, settings)
    IN IF c.threw # "none"
       THEN ConstructFailed(c, [Blank EXCEPT !.op = "stringify", !.root = rootType, !.objCtor = objCtor])
       ELSE Stringify(The(c.inst), objCtor, serThrows)

\* static TypedJSON.stringifyAsArray: `dimensions: number = 1` is passed on.
StaticStringifyAsArray(object, elementType, dimensions, g, settings, serThrows) ==
    LET c == Construct(elementType, g, settings)
        asked == RequestedDimensions(dimensions)
    IN IF c.threw # "none"
       THEN ConstructFailed(c, [Blank EXCEPT !.op = "stringifyAsArray", !.root = elementType,
                                          !.object = object, !.requested = asked])
       ELSE [StringifyAsArray(The(c.inst), object, Some(DefaultDimensions(dimensions)),
                              serThrows)
                EXCEPT !.requested = asked]

\* static TypedJSON.stringifyAsSet
StaticStringifyAsSet(object, elementType, g, settings, serThrows) ==
    LET c == Construct(elementType, g, settings)
    IN IF c.threw # "none"
       THEN ConstructFailed(c, [Blank EXCEPT !.op = "stringifyAsSet", !.root = elementType,
                                          !.object = object])
       ELSE StringifyAsSet(The(c.inst), object, serThrows)

\* static TypedJSON.stringifyAsMap
StaticStringifyAsMap(object, valueCtor, g, settings, serThrows) ==
    LET c == Construct(valueCtor, g, settings)
    IN IF c.threw # "none"
       THEN ConstructFailed(c, [Blank EXCEPT !.op = "stringifyAsMap", !.root = valueCtor,
                                          !.object = object])
       ELSE StringifyAsMap(The(c.inst), object, serThrows)

-----------------------------------------------------------------------------
(* Inputs *)

\* Root / element types callers pass.
RootInputs == {"Base", "Implicit", "Number"}
\* Optional settings argument of the constructor.
OptionalSettings == {Absent} \cup {Some(s) : s \in SettingsInputs}
\* Optional settings argument of the static entry points: none, or the
\* settings with a name resolver.
StaticSettings == {Absent} \cup {Some(s) : s \in {x \in SettingsInputs : Has(x, "nameResolver")}}
\* Constructors of the objects passed to stringify.
ObjectCtorInputs == {"Base", "Derived", "Leaf"}
\* Containers passed to stringifyAs*, as their elements in iteration order.
ContainerInputs == {<<1, 2, 3>>}
DimensionInputs == 1..MaxDims
\* The optional 'dimensions' argument: omitted (which stands for 1), or more.
OptionalDimensions == {Absent} \cup {Some(d) : d \in DimensionInputs \ {1}}

-----------------------------------------------------------------------------
(* Property decorators: jsonMember, jsonSetMember *)

\* The decorated properties of the target class, with the declared type that
\* emitDecoratorMetadata records as "design:type" (Undef: none recorded).
PropKeys == {"count", "tags", "untyped"}
DesignType(propKey) ==
    CASE propKey = "count" -> "Number"
      [] propKey = "tags" -> "Set"
      [] OTHER -> Undef

\* typeof x === "function"
IsFunction(x) == x \in Classes \cup Builtins

\* Helpers.isValueDefined
isValueDefined(x) == x # Undef /\ x # Null

\* Helpers.isSubtypeOf
isSubtypeOf(A, B) == A = B \/ B = "Object"

\* An IJsonMemberOptions / IJsonSetMemberOptions object: `has` is the set of
\* its own properties; the others hold the filler value of their type.
EmptyOptions ==
    [has |-> {}, constructor |-> Undef, isRequired |-> FALSE, emitDefaultValue |-> FALSE]

\* options.constructor: the own property, else Object.prototype.constructor.
ConstructorOf(options) ==
    IF "constructor" \in options.has THEN options.constructor ELSE "Object"

\* typeof of the boolean that hasOwnProperty returns.
TypeofHasOwnProperty(options, name) == "boolean"

\* Truthiness of a string.
TruthyString(s) == s # ""

\* A member metadata object (JsonMemberMetadata) as the decorators fill it:
\* `assigned` is the set of fields the decorator assigned, `by` the decorator.
NewMemberMetadata(by) ==
    [by |-> by, assigned |-> {}, ctor |-> Undef, elementType |-> <<>>,
     emitDefaultValue |-> FALSE, isRequired |-> FALSE, key |-> "", name |-> ""]

\* The record of one decorator application.
BlankDecor ==
    [by |-> "none", form |-> "none", propKey |-> "", options |-> EmptyOptions,
     elementConstructor |-> Undef,
     propCtor |-> Undef,        \* jsonMember: the property constructor it determined
     errors |-> 0,              \* Helpers.logError calls
     warnings |-> 0,            \* Helpers.logWarning calls
     injected |-> Absent]       \* what it passed to injectMetadataInformation

LogError(d) == [d EXCEPT !.errors = @ + 1]
LogWarning(d) == [d EXCEPT !.warnings = @ + 1]
Inject(d, memberMetadata) == [d EXCEPT !.injected = Some(memberMetadata)]

\* A special-type check that forgets Set.
isSpecialPropertyTypeNoSet(propCtor) == propCtor \in {"Array", "Map"}

\* isSpecialPropertyType: TRUE (after logging an error) for Array, Set and Map.
isSpecialPropertyType(propCtor) == propCtor \in {"Array", "Set", "Map"}

\* jsonMember used directly as a decorator: jsonMember(target, propKey).
JsonMemberBare(propKey, reflect) ==
    LET d == [BlankDecor EXCEPT !.by = "jsonMember", !.form = "bare", !.propKey = propKey]
    IN IF reflect
       THEN LET reflectPropCtor == DesignType(propKey)
                seen == [d EXCEPT !.propCtor = reflectPropCtor]
            IN IF reflectPropCtor = Undef THEN LogError(seen)
               ELSE IF isSpecialPropertyType(reflectPropCtor) THEN LogError(seen)
               ELSE Inject(seen, [NewMemberMetadata("jsonMember") EXCEPT
                                     !.assigned = {"ctor", "key", "name"},
                                     !.ctor = reflectPropCtor,
                                     !.key = propKey, !.name = propKey])
       ELSE LogError(d)

\* jsonMember used as a decorator factory: jsonMember(options)(target, propKey).
JsonMemberFactory(options, propKey, reflect) ==
    LET d == [BlankDecor EXCEPT !.by = "jsonMember", !.form = "factory",
                                !.propKey = propKey, !.options = options]
        finish(e) ==
            IF isSpecialPropertyType(e.propCtor) THEN LogError(e)
            ELSE Inject(e, [NewMemberMetadata("jsonMember") EXCEPT
                               !.assigned = {"ctor", "emitDefaultValue", "isRequired", "key", "name"},
                               !.ctor = e.propCtor,
                               !.emitDefaultValue = options.emitDefaultValue,
                               !.isRequired = options.isRequired,
                               !.key = propKey, !.name = propKey])
    IN IF TruthyString(TypeofHasOwnProperty(options, "constructor"))
       THEN IF ~isValueDefined(ConstructorOf(options)) THEN LogError(d)
            ELSE finish([(IF reflect /\ ~isSubtypeOf(ConstructorOf(options), DesignType(propKey))
                          THEN LogWarning(d) ELSE d)
                            EXCEPT !.propCtor = ConstructorOf(options)])
       ELSE IF reflect
            THEN IF DesignType(propKey) = Undef THEN LogError(d)
                 ELSE finish([d EXCEPT !.propCtor = DesignType(propKey)])
            ELSE LogError(d)

\* jsonSetMember(elementConstructor, options)(target, propKey)
JsonSetMember(elementConstructor, options, propKey, reflect) ==
    LET d == [BlankDecor EXCEPT !.by = "jsonSetMember", !.form = "factory",
                                !.propKey = propKey, !.options = options,
                                !.elementConstructor = elementConstructor]
    IN IF ~IsFunction(elementConstructor) THEN LogError(d)
       ELSE IF reflect /\ DesignType(propKey) # "Set" THEN LogError(d)
       ELSE Inject(d, [NewMemberMetadata("jsonSetMember") EXCEPT
                          !.assigned = {"ctor", "elementType", "emitDefaultValue",
                                        "isRequired", "key", "name"},
                          !.ctor = "Set",
                          !.elementType = <<elementConstructor>>,
                          !.emitDefaultValue = options.emitDefaultValue,
                          !.isRequired = options.isRequired,
                          !.key = propKey, !.name = propKey])

\* The options objects passed to jsonMember (the first also stands for none).
MemberOptionInputs ==
    { EmptyOptions,
      [EmptyOptions EXCEPT !.has = {"isRequired"}, !.isRequired = TRUE],
      [EmptyOptions EXCEPT !.has = {"constructor"}, !.constructor = "Number"],
      [EmptyOptions EXCEPT !.has = {"constructor"}, !.constructor = "Array"],
      [EmptyOptions EXCEPT !.has = {"constructor"}, !.constructor = "Set"],
      [EmptyOptions EXCEPT !.has = {"constructor"}, !.constructor = "Map"],
      [EmptyOptions EXCEPT !.has = {"constructor"}, !.constructor = Undef] }

\* The options objects passed to jsonSetMember.
SetMemberOptionInputs ==
    { EmptyOptions,
      [EmptyOptions EXCEPT !.has = {"emitDefaultValue"}, !.emitDefaultValue = TRUE] }

\* The element constructors passed to jsonSetMember; "a string" is a value
\* that is not a function.
ElementConstructorInputs == {"Number", Undef, "a string"}

-----------------------------------------------------------------------------
(* Actions *)

NoMembers == [k \in PropKeys |-> Absent]

Init ==
    /\ globalConfig = Absent
    /\ inst = Absent
    /\ nextTable = 0
    /\ handed = <<>>
    /\ last = Blank
    /\ isReflectMetadataSupported = TRUE
    /\ members = NoMembers
    /\ lastDecor = BlankDecor

\* Class definition time: the decorators run, with or without ReflectDecorators.
InitMembers ==
    /\ globalConfig = Absent
    /\ inst = Absent
    /\ nextTable = 0
    /\ handed = <<>>
    /\ last = Blank
    /\ isReflectMetadataSupported \in BOOLEAN
    /\ members = NoMembers
    /\ lastDecor = BlankDecor

\* What a decorator application leaves behind; injectMetadataInformation
\* stores the member metadata under the property key.
AfterDecorator(d) ==
    /\ lastDecor' = d
    /\ members' = IF IsPresent(d.injected)
                  THEN [members EXCEPT ![d.propKey] = d.injected]
                  ELSE members
    /\ UNCHANGED <<facadeVars, isReflectMetadataSupported>>

ApplyJsonMemberBare ==
    \E propKey \in PropKeys :
        AfterDecorator(JsonMemberBare(propKey, isReflectMetadataSupported))

ApplyJsonMemberFactory ==
    \E options \in MemberOptionInputs, propKey \in PropKeys :
        AfterDecorator(JsonMemberFactory(options, propKey, isReflectMetadataSupported))

ApplyJsonSetMember ==
    \E elementConstructor \in ElementConstructorInputs, options \in SetMemberOptionInputs,
       propKey \in PropKeys :
        AfterDecorator(JsonSetMember(elementConstructor, options, propKey,
                                     isReflectMetadataSupported))

NextMembers ==
    \/ ApplyJsonMemberBare
    \/ ApplyJsonMemberFactory
    \/ ApplyJsonSetMember

SpecMembers == InitMembers /\ [][NextMembers]_vars

\* What a deserializing call leaves behind.
AfterDeserializing(o) ==
    /\ last' = o
    /\ nextTable' = IF o.tableId # 0 THEN o.tableId ELSE nextTable
    /\ handed' = IF o.desCalled THEN Append(handed, o.tableId) ELSE handed
    /\ UNCHANGED <<isReflectMetadataSupported, memberVars>>

\* What a serializing call leaves behind.
AfterSerializing(o) ==
    /\ last' = o
    /\ UNCHANGED <<nextTable, handed, isReflectMetadataSupported, memberVars>>

\* The instance a constructor call makes is the most recent one; the
\* constructor runs config when it has settings or a global config.
Constructed(rootConstructor, settings) ==
    LET c == Construct(rootConstructor, globalConfig, settings)
    IN /\ inst' = IF c.threw = "none" THEN c.inst ELSE inst
       /\ globalConfig' = IF c.configured THEN GlobalAfterConfig(globalConfig)
                                           ELSE globalConfig

\* A static call whose constructor throws never looks at its other arguments:
\* it is tried with one JSON text, one object, no dimensions, and with
\* settings given.
SettingsChoices(rootConstructor) ==
    IF RootRejected(getFromConstructor(rootConstructor))
    THEN StaticSettings \ {Absent} ELSE StaticSettings
JsonChoices(rootConstructor) ==
    IF RootRejected(getFromConstructor(rootConstructor)) THEN {Text123} ELSE JsonInputs
ObjectCtorChoices(rootConstructor) ==
    IF RootRejected(getFromConstructor(rootConstructor)) THEN {"Base"} ELSE ObjectCtorInputs
DimensionChoices(rootConstructor) ==
    IF RootRejected(getFromConstructor(rootConstructor)) THEN {Absent} ELSE OptionalDimensions

\* Whether the converter throws is only a question when it can be reached:
\* the constructor accepted the root; parse decoded the text; parseAsArray,
\* parseAsSet and parseAsMap decoded an array; stringify got an instance of
\* the root class.
ThrowChoices(rootConstructor) ==
    IF RootRejected(getFromConstructor(rootConstructor)) THEN {FALSE} ELSE BOOLEAN
ParseThrowChoices(json) ==
    IF JSONparse(json).ok THEN BOOLEAN ELSE {FALSE}
ContainerThrowChoices(json) ==
    IF JSONparse(json).ok /\ IsArray(JSONparse(json)) THEN BOOLEAN ELSE {FALSE}
StringifyThrowChoices(objCtor, rootConstructor) ==
    IF instanceOf(objCtor, rootConstructor) THEN BOOLEAN ELSE {FALSE}

SetGlobalConfig ==
    \E config \in SettingsInputs :
        /\ globalConfig' = SetGlobal(globalConfig, config)
        /\ last' = [Blank EXCEPT !.op = "setGlobalConfig", !.arg = Some(config)]
        /\ UNCHANGED <<inst, nextTable, handed, isReflectMetadataSupported, memberVars>>

New ==
    \E rootConstructor \in RootInputs, settings \in OptionalSettings :
        LET c == Construct(rootConstructor, globalConfig, settings)
        IN /\ Constructed(rootConstructor, settings)
           /\ last' = IF c.threw = "none"
                      THEN [Call(The(c.inst), "new") EXCEPT
                               !.configured = c.configured,
                               !.arg = settings,
                               !.argKept = IsPresent(settings) =>
                                     CallerSettingsAfter(globalConfig, The(settings))
                                        = The(settings)]
                      ELSE ConstructFailed(c, [Blank EXCEPT !.op = "new", !.root = rootConstructor])
           /\ UNCHANGED <<nextTable, handed, isReflectMetadataSupported, memberVars>>

ConfigCall ==
    /\ IsPresent(inst)
    /\ \E settings \in SettingsInputs :
        /\ inst' = Some(Config(The(inst), globalConfig, settings))
        /\ globalConfig' = GlobalAfterConfig(globalConfig)
        /\ last' = [Call(The(inst'), "config") EXCEPT
                        !.configured = TRUE,
                        !.arg = Some(settings),
                        !.argKept = (CallerSettingsAfter(globalConfig, settings) = settings)]
        /\ UNCHANGED <<nextTable, handed, isReflectMetadataSupported, memberVars>>

ParseCall ==
    /\ IsPresent(inst) /\ nextTable < MaxTables
    /\ \E json \in JsonInputs :
        \E desThrows \in ParseThrowChoices(json) :
        AfterDeserializing(Parse(The(inst), json, desThrows, nextTable))
    /\ UNCHANGED <<inst, globalConfig>>

ParseAsArrayCall ==
    /\ IsPresent(inst) /\ nextTable < MaxTables
    /\ \E json \in JsonInputs, dimensions \in OptionalDimensions :
        \E desThrows \in ContainerThrowChoices(json) :
        AfterDeserializing(ParseAsArray(The(inst), json, dimensions, desThrows, nextTable))
    /\ UNCHANGED <<inst, globalConfig>>

ParseAsSetCall ==
    /\ IsPresent(inst) /\ nextTable < MaxTables
    /\ \E json \in JsonInputs :
        \E desThrows \in ContainerThrowChoices(json) :
        AfterDeserializing(ParseAsSet(The(inst), json, desThrows, nextTable))
    /\ UNCHANGED <<inst, globalConfig>>

ParseAsMapCall ==
    /\ IsPresent(inst) /\ nextTable < MaxTables
    /\ \E json \in JsonInputs :
        \E desThrows \in ContainerThrowChoices(json) :
        AfterDeserializing(ParseAsMap(The(inst), json, desThrows, nextTable))
    /\ UNCHANGED <<inst, globalConfig>>

StringifyCall ==
    /\ IsPresent(inst)
    /\ \E objCtor \in ObjectCtorInputs :
        \E serThrows \in StringifyThrowChoices(objCtor, The(inst).rootConstructor) :
        AfterSerializing(Stringify(The(inst), objCtor, serThrows))
    /\ UNCHANGED <<inst, globalConfig>>

StringifyAsArrayCall ==
    /\ IsPresent(inst)
    /\ \E object \in ContainerInputs, dimensions \in OptionalDimensions, serThrows \in BOOLEAN :
        AfterSerializing(StringifyAsArray(The(inst), object, dimensions, serThrows))
    /\ UNCHANGED <<inst, globalConfig>>

StringifyAsSetCall ==
    /\ IsPresent(inst)
    /\ \E object \in ContainerInputs, serThrows \in BOOLEAN :
        AfterSerializing(StringifyAsSet(The(inst), object, serThrows))
    /\ UNCHANGED <<inst, globalConfig>>

StringifyAsMapCall ==
    /\ IsPresent(inst)
    /\ \E object \in ContainerInputs, serThrows \in BOOLEAN :
        AfterSerializing(StringifyAsMap(The(inst), object, serThrows))
    /\ UNCHANGED <<inst, globalConfig>>

StaticParseCall ==
    /\ nextTable < MaxTables
    /\ \E rootType \in RootInputs :
        \E settings \in SettingsChoices(rootType) :
        \E json \in JsonChoices(rootType) :
        \E desThrows \in ThrowChoices(rootType) \cap ParseThrowChoices(json) :
            /\ Constructed(rootType, settings)
            /\ AfterDeserializing(StaticParse(json, rootType, globalConfig, settings,
                                              desThrows, nextTable))

StaticParseAsArrayCall ==
    /\ nextTable < MaxTables
    /\ \E elementType \in RootInputs :
        \E settings \in SettingsChoices(elementType) :
        \E json \in JsonChoices(elementType), dimensions \in DimensionChoices(elementType) :
        \E desThrows \in ThrowChoices(elementType) \cap ContainerThrowChoices(json) :
            /\ Constructed(elementType, settings)
            /\ AfterDeserializing(StaticParseAsArray(json, elementType, dimensions,
                                                     globalConfig, settings,
                                                     desThrows, nextTable))

StaticParseAsSetCall ==
    /\ nextTable < MaxTables
    /\ \E elementType \in RootInputs :
        \E settings \in SettingsChoices(elementType) :
        \E json \in JsonChoices(elementType) :
        \E desThrows \in ThrowChoices(elementType) \cap ContainerThrowChoices(json) :
            /\ Constructed(elementType, settings)
            /\ AfterDeserializing(StaticParseAsSet(json, elementType, globalConfig, settings,
                                                   desThrows, nextTable))

StaticParseAsMapCall ==
    /\ nextTable < MaxTables
    /\ \E valueType \in RootInputs :
        \E settings \in SettingsChoices(valueType) :
        \E json \in JsonChoices(valueType) :
        \E desThrows \in ThrowChoices(valueType) \cap ContainerThrowChoices(json) :
            /\ Constructed(valueType, settings)
            /\ AfterDeserializing(StaticParseAsMap(json, valueType, globalConfig, settings,
                                                   desThrows, nextTable))

StaticStringifyCall ==
    \E rootType \in RootInputs :
        \E settings \in SettingsChoices(rootType) :
        \E objCtor \in ObjectCtorChoices(rootType) :
        \E serThrows \in ThrowChoices(rootType) \cap StringifyThrowChoices(objCtor, rootType) :
            /\ Constructed(rootType, settings)
            /\ AfterSerializing(StaticStringify(objCtor, rootType, globalConfig, settings,
                                                serThrows))

StaticStringifyAsArrayCall ==
    \E object \in ContainerInputs, elementType \in RootInputs :
        \E settings \in SettingsChoices(elementType) :
        \E dimensions \in DimensionChoices(elementType),
           serThrows \in ThrowChoices(elementType) :
            /\ Constructed(elementType, settings)
            /\ AfterSerializing(StaticStringifyAsArray(object, elementType, dimensions,
                                                       globalConfig, settings, serThrows))

StaticStringifyAsSetCall ==
    \E object \in ContainerInputs, elementType \in RootInputs :
        \E settings \in SettingsChoices(elementType) :
        \E serThrows \in ThrowChoices(elementType) :
            /\ Constructed(elementType, settings)
            /\ AfterSerializing(StaticStringifyAsSet(object, elementType, globalConfig,
                                                     settings, serThrows))

StaticStringifyAsMapCall ==
    \E object \in ContainerInputs, valueCtor \in RootInputs :
        \E settings \in SettingsChoices(valueCtor) :
        \E serThrows \in ThrowChoices(valueCtor) :
            /\ Constructed(valueCtor, settings)
            /\ AfterSerializing(StaticStringifyAsMap(object, valueCtor, globalConfig,
                                                     settings, serThrows))

Next ==
    \/ SetGlobalConfig
    \/ New
    \/ ConfigCall
    \/ ParseCall
    \/ ParseAsArrayCall
    \/ ParseAsSetCall
    \/ ParseAsMapCall
    \/ StringifyCall
    \/ StringifyAsArrayCall
    \/ StringifyAsSetCall
    \/ StringifyAsMapCall
    \/ StaticParseCall
    \/ StaticParseAsArrayCall
    \/ StaticParseAsSetCall
    \/ StaticParseAsMapCall
    \/ StaticStringifyCall
    \/ StaticStringifyAsArrayCall
    \/ StaticStringifyAsSetCall
    \/ StaticStringifyAsMapCall

Spec == Init /\ [][Next]_vars

-----------------------------------------------------------------------------
(* Properties *)

ParseOps == {"parse", "parseAsArray", "parseAsSet", "parseAsMap"}
ContainerParseOps == {"parseAsArray", "parseAsSet", "parseAsMap"}
StringifyOps == {"stringify", "stringifyAsArray", "stringifyAsSet", "stringifyAsMap"}
EntryOps == ParseOps \cup StringifyOps

\* The root types without class metadata, or whose metadata is not explicitly marked.
UnregisteredRoots ==
    {c \in Classes \cup Builtins :
        ~IsPresent(ClassMetadata[c]) \/ ~The(ClassMetadata[c]).isExplicitlyMarked}

\* C1: a constructor call or static entry point whose root type has no class
\* metadata, or metadata that is not explicitly marked, throws a TypeError
\* before any settings are applied: the error handler is not invoked, no
\* converter is invoked, no table is built, nothing is returned, and no
\* instance with such a root exists.
C1_UnregisteredRootThrows ==
    /\ (last.op \in EntryOps \cup {"new"} /\ last.root \in UnregisteredRoots) =>
          /\ last.threw = "TypeError"
          /\ last.during = "construct"
          /\ ~last.configured
          /\ last.handlerCalls = <<>>
          /\ ~last.desCalled /\ ~last.serCalled
          /\ last.tableId = 0
          /\ last.result = NoValue
    /\ IsPresent(inst) => The(inst).rootConstructor \notin UnregisteredRoots

\* C1 witness: a static parse on a root whose metadata is not explicitly marked
\* threw, while the global config supplies an error handler.
C1_Witness ==
    /\ last.op = "parse" /\ last.root = "Implicit" /\ last.threw = "TypeError"
    /\ IsPresent(globalConfig) /\ Has(The(globalConfig), "errorHandler")

\* C2: in parse and stringify, an exception raised during conversion is passed
\* to the error handler exactly once; if the handler re-throws, the exception
\* leaves the call and nothing is returned; otherwise the call does not throw
\* and returns undefined (parse) or the empty string (stringify).
C2_ConversionErrorHandledOnce ==
    (last.op \in {"parse", "stringify"} /\ last.during = "conversion") =>
        /\ last.handlerCalls = <<last.error>>
        /\ HandlerThrows(last.handler) =>
              (last.threw = last.error /\ last.result = NoValue)
        /\ ~HandlerThrows(last.handler) =>
              /\ last.threw = "none"
              /\ last.result = (IF last.op = "parse" THEN Undefined ELSE EmptyString)

\* C2 witness: a stringify whose serializer threw, with a handler that returns.
C2_Witness ==
    /\ last.op = "stringify" /\ last.error = "ConversionError"
    /\ last.handler = "swallow" /\ last.result = EmptyString

\* C3 (as claimed): in every entry point, an error that arises after
\* construction (JSON decode failure, converter exception, shape check) is
\* passed to the error handler, and when the handler returns normally the call
\* returns a result instead of throwing.
C3_AllErrorsReachHandler ==
    (last.op \in EntryOps /\ last.error # "none" /\ last.during # "construct") =>
        /\ last.error \in Range(last.handlerCalls)
        /\ ~HandlerThrows(last.handler) => (last.threw = "none" /\ last.result # NoValue)

\* The constructors the claim expects in the table of a call on instance i.
ExpectedKnownTypes(i) ==
    Range(FilterTruthy(i.globalKnownTypes))
        \cup (IF IsPresent(getFromConstructor(i.rootConstructor))
              THEN Range(The(getFromConstructor(i.rootConstructor)).knownTypes)
              ELSE {})

\* C4 (as claimed): the table a deserializing entry point hands to the
\* deserializer has an entry under the resolved name of every non-null
\* configured known type and of every known subtype of the root class.
C4_TableCoversGlobalAndRootKnownTypes ==
    (last.op \in ParseOps /\ last.desCalled) =>
        \A ctor \in ExpectedKnownTypes(The(inst)) :
            MapHas(last.table, ResolveName(The(inst).nameResolver, ctor))

\* Two distinct constructors entered into one table resolve to the same name.
Collides(sources, resolver) ==
    \E j, k \in 1..Len(sources) :
        /\ sources[j] # sources[k]
        /\ ResolveName(resolver, sources[j]) = ResolveName(resolver, sources[k])

\* C5 (as claimed): when two distinct constructors entered into the table
\* resolve to the same name, the call reports an AmbiguousTypeName error.
C5_CollisionReported ==
    (last.op \in ParseOps /\ last.tableId # 0
       /\ Collides(last.sources, The(inst).nameResolver)) =>
        \/ last.error = "AmbiguousTypeName"
        \/ "AmbiguousTypeName" \in Range(last.handlerCalls)

\* The position of the last constructor entered under the name of sources[j].
LastUnderName(sources, resolver, j) ==
    CHOOSE k \in 1..Len(sources) :
        /\ ResolveName(resolver, sources[k]) = ResolveName(resolver, sources[j])
        /\ \A m \in (k + 1)..Len(sources) :
              ResolveName(resolver, sources[m]) # ResolveName(resolver, sources[j])

\* C5 (amended): the table holds, under every resolved name, the constructor
\* entered last under that name, one entry per name; a name collision is not
\* reported as an error.
C5_LastEntryWins ==
    (last.op \in ParseOps /\ last.tableId # 0) =>
        LET resolver == The(inst).nameResolver
            names == {ResolveName(resolver, last.sources[j]) : j \in 1..Len(last.sources)}
        IN /\ \A j \in 1..Len(last.sources) :
                 /\ MapHas(last.table, ResolveName(resolver, last.sources[j]))
                 /\ MapGet(last.table, ResolveName(resolver, last.sources[j]))
                       = last.sources[LastUnderName(last.sources, resolver, j)]
           /\ Len(last.table) = Cardinality(names)
           /\ last.error # "AmbiguousTypeName"
           /\ "AmbiguousTypeName" \notin Range(last.handlerCalls)

\* C5 witness: a parse whose table was built from colliding constructors and
\* handed to the deserializer, the later one having replaced the earlier.
C5_Witness ==
    /\ last.op = "parse" /\ last.desCalled
    /\ Collides(last.sources, The(inst).nameResolver)
    /\ last.sources = <<"DerivedB", "Derived">>
    /\ last.table = << <<"Derived", "Derived">> >>

\* C6: every deserializing call allocates its own table: no table identity is
\* handed to the deserializer twice, and within a call the table is allocated,
\* then written, then handed over, with no write after the hand-over.
C6_FreshTablePerCall ==
    /\ \A j, k \in 1..Len(handed) : j # k => handed[j] # handed[k]
    /\ last.desCalled =>
          /\ last.tableId # 0
          /\ handed[Len(handed)] = last.tableId
          /\ last.trace[1] = [ev |-> "new", id |-> last.tableId]
          /\ last.trace[Len(last.trace)] = [ev |-> "hand", id |-> last.tableId]
          /\ \A j \in 2..(Len(last.trace) - 1) :
                last.trace[j] = [ev |-> "set", id |-> last.tableId]

\* C6 witness: two calls have handed a table each, the later one after writes.
C6_Witness ==
    /\ Len(handed) = 2 /\ last.desCalled /\ Len(last.trace) > 2

\* C9 (as claimed): stringifyAsSet of {1,2,3} with element type Number returns
\* the text [1,2,3], and parseAsSet of that text with element type Number
\* returns a set holding exactly 1, 2 and 3.
C9_NumberSetConverts ==
    /\ (last.op = "stringifyAsSet" /\ last.root = "Number" /\ last.object = <<1, 2, 3>>) =>
          (last.threw = "none" /\ last.result = StringOf(Text123))
    /\ (last.op = "parseAsSet" /\ last.root = "Number" /\ last.json = Text123) =>
          (last.threw = "none" /\ last.result = [kind |-> "Set", items |-> <<1, 2, 3>>])

EmptyContainerOf(op) ==
    [kind |-> (CASE op = "parseAsArray" -> "Array" [] op = "parseAsSet" -> "Set" [] OTHER -> "Map"),
     items |-> <<>>]

\* C10: in parseAsArray, parseAsSet and parseAsMap, when the decoded value is
\* not an array the deserializer is not invoked, the handler is invoked exactly
\* once with a TypeError, and if it returns normally the call returns the
\* empty container of its kind.
C10_NonArrayRejected ==
    (last.op \in ContainerParseOps /\ last.decoded \in {"object", "number"}) =>
        /\ ~last.desCalled
        /\ last.handlerCalls = <<"TypeError">>
        /\ ~HandlerThrows(last.handler) =>
              (last.threw = "none" /\ last.result = EmptyContainerOf(last.op))
        /\ HandlerThrows(last.handler) => last.result = NoValue

\* C10 witness: parseAsMap of a JSON object with a handler that returns.
C10_Witness ==
    /\ last.op = "parseAsMap" /\ last.decoded = "object" /\ last.json = TextObject
    /\ last.handler = "swallow" /\ last.result = [kind |-> "Map", items |-> <<>>]

\* The member metadata registered so far.
Registered == {The(members[k]) : k \in {x \in PropKeys : IsPresent(members[x])}}

\* C7: jsonMember never injects member metadata whose constructor is Array,
\* Set or Map (it logs an error and injects nothing); metadata whose
\* constructor is Set comes from jsonSetMember only and carries a one-element
\* element-type list holding a function; jsonSetMember injects nothing when the
\* element constructor is not a function, or when reflection is available and
\* the declared type of the property is not Set.
C7_ContainerMembersOnlyByContainerDecorators ==
    /\ \A m \in Registered :
          /\ m.by = "jsonMember" => m.ctor \notin Containers
          /\ m.ctor = "Set" =>
                /\ m.by = "jsonSetMember"
                /\ Len(m.elementType) = 1
                /\ IsFunction(m.elementType[1])
    /\ (lastDecor.by = "jsonMember" /\ lastDecor.propCtor \in Containers) =>
          (~IsPresent(lastDecor.injected) /\ lastDecor.errors = 1)
    /\ (lastDecor.by = "jsonSetMember"
          /\ (\/ ~IsFunction(lastDecor.elementConstructor)
              \/ isReflectMetadataSupported /\ DesignType(lastDecor.propKey) # "Set")) =>
          ~IsPresent(lastDecor.injected)

\* C7 witness: jsonSetMember registered a Set member, and afterwards a
\* jsonMember whose 'constructor' option is Set injected nothing.
C7_Witness ==
    /\ \E m \in Registered : m.ctor = "Set" /\ m.elementType = <<"Number">>
    /\ lastDecor.by = "jsonMember" /\ lastDecor.form = "factory"
    /\ lastDecor.propCtor = "Set" /\ ~IsPresent(lastDecor.injected)

\* C8 (as claimed): jsonMember as a factory with options that have no own
\* 'constructor' takes the member constructor from the property's design:type
\* when ReflectDecorators is available; when it is not, it logs an error and
\* registers nothing.
C8_ConstructorFromReflection ==
    (lastDecor.by = "jsonMember" /\ lastDecor.form = "factory"
       /\ "constructor" \notin lastDecor.options.has) =>
        /\ isReflectMetadataSupported =>
              /\ lastDecor.propCtor = DesignType(lastDecor.propKey)
              /\ IsPresent(lastDecor.injected) =>
                    The(lastDecor.injected).ctor = DesignType(lastDecor.propKey)
        /\ ~isReflectMetadataSupported =>
              (~IsPresent(lastDecor.injected) /\ lastDecor.errors >= 1)

\* The element-type chain for d dimensions over an element constructor:
\* length d, Array in the first d - 1 places, the element constructor last.
IsChainFor(chain, d, elementCtor) ==
    /\ Len(chain) = d
    /\ \A k \in 1..(d - 1) : chain[k] = "Array"
    /\ chain[d] = elementCtor

\* C11 (as claimed): whenever parseAsArray or stringifyAsArray, called on an
\* instance or through the static entry point, invokes its converter, the
\* element-type chain it hands over is the chain for the dimensions the caller
\* asked for (d >= 1), and the one-element chain when the caller omitted them.
C11_RequestedDimensionsReachChain ==
    (last.op \in {"parseAsArray", "stringifyAsArray"} /\ (last.desCalled \/ last.serCalled)) =>
        IsChainFor(last.chain, last.requested, last.root)

\* The resolver a converter works with: Helpers.nameof until one is installed.
ConverterResolver(installed) == IF installed = "default" THEN "nameof" ELSE installed

\* The name the serializer's default type-hint emitter writes for a constructor.
serTypeHintName(i, ctor) == ResolveName(ConverterResolver(i.serNameResolver), ctor)

\* C12 (as claimed): once config has taken a nameResolver from the settings,
\* the facade, the deserializer and the serializer all hold that resolver; and
\* when parse has built its table on such an instance, the name the default
\* type-hint emitter writes for each constructor in the table is the key the
\* table holds it under.
C12_NameResolverOnEveryComponent ==
    (IsPresent(inst) /\ The(inst).nameResolver # "nameof") =>
        /\ The(inst).desNameResolver = The(inst).nameResolver
        /\ The(inst).serNameResolver = The(inst).nameResolver
        /\ (last.op = "parse" /\ The(inst).serTypeHintEmitter = "default") =>
              \A k \in 1..Len(last.table) :
                  serTypeHintName(The(inst), last.table[k][2]) = last.table[k][1]

\* A settings argument, possibly absent, defines the setting k.
Defines(s, k) == IsPresent(s) /\ Has(The(s), k)

\* The value that wins for setting k: from the settings argument s when it
\* defines k, otherwise from the global config g, otherwise the default.
Chosen(s, g, k, default) ==
    IF Defines(s, k) THEN The(s)[k] ELSE IF Defines(g, k) THEN The(g)[k] ELSE default

KnownTypesOf(s) == IF Defines(s, "knownTypes") THEN The(s).knownTypes ELSE <<>>

NoDuplicates(seq) == \A a, b \in 1..Len(seq) : seq[a] = seq[b] => a = b

\* The settings other than knownTypes, as new TypedJSON(root, s) leaves them
\* in the instance i under the global config g.
ScalarSettingsChosen(i, s, g) ==
    /\ i.errorHandler = Chosen(s, g, "errorHandler", "logError")
    /\ i.desErrorHandler = Chosen(s, g, "errorHandler", "default")
    /\ i.serErrorHandler = Chosen(s, g, "errorHandler", "default")
    /\ i.desTypeResolver = Chosen(s, g, "typeResolver", "default")
    /\ i.serTypeHintEmitter = Chosen(s, g, "typeHintEmitter", "default")
    /\ i.nameResolver = Chosen(s, g, "nameResolver", "nameof")
    /\ i.replacer = Chosen(s, g, "replacer", Undef)
    /\ i.indent = Chosen(s, g, "indent", 0)

\* setGlobalConfig(config) leaves in the global config, for every setting,
\* the value config defines, and otherwise what was there before; so the
\* global value of a setting is that of the most recent call that defined it.
GlobalKeepsMostRecent ==
    last'.op = "setGlobalConfig" =>
        /\ IsPresent(globalConfig')
        /\ \A k \in SettingKeys :
              IF Defines(last'.arg, k)
              THEN Defines(globalConfig', k) /\ The(globalConfig')[k] = The(last'.arg)[k]
              ELSE /\ Defines(globalConfig', k) <=> Defines(globalConfig, k)
                   /\ Defines(globalConfig, k) => The(globalConfig')[k] = The(globalConfig)[k]

\* Every call but setGlobalConfig, the constructor and config included,
\* leaves the global config as it was; the constructor and config leave the
\* caller's settings object as it was.
ConfigFrame ==
    last'.op # "setGlobalConfig" => (globalConfig' = globalConfig /\ last'.argKept)

====
